---- MODULE Spec2Model ----
(***************************************************************************)
(* QuickResilientSOARstatistics.py: the threaded statistics collector.     *)
(* main fetches every incident page by page, queues the incidents, starts  *)
(* --workers threads that each dequeue an incident, run the three          *)
(* sub-queries, merge the counts into the shared results dict under the    *)
(* module-level lock and print the progress bar, then waits for the queue  *)
(* to drain, stops the workers with None sentinels and prints the report.  *)
(* QuickResilientSOARstatistics-p3.py is the single-threaded variant: the  *)
(* same sub-queries, added up in list order.                               *)
(***************************************************************************)
EXTENDS Integers, Sequences, FiniteSets, TLC

(* ---------------------------------------------------------------- bounds *)

\* Largest number of incidents the backend holds.
MaxRecords == 3

\* Largest value of --workers.
MaxWorkers == 2

\* page_size of fetch_all_incidents, scaled down from the 1000 of the source
\* so that full, short and empty pages all occur within MaxRecords.
page_size == 2

\* Largest number of tasks, and of attachments, of an incident whose
\* sub-query outcomes are enumerated (SubQuerySpec).
MaxItems == 2

(* ------------------------------------------------- the backend's records *)

\* The outcome of one res_client.get: a list of `len` entities, or an exception.
Ok(n) == [ok |-> TRUE, len |-> n]
Raises == [ok |-> FALSE, len |-> 0]

\* An attachment entity without a "size" key.
NoSize == -1

\* The outcome of GET /incidents/{id}/attachments: the sizes of the entities.
OkList(s) == [ok |-> TRUE, items |-> s]
RaisesList == [ok |-> FALSE, items |-> <<>>]

\* One incident of the backend with the fixed outcome of each of its sub-queries:
\* the fields of the incident itself (plan_status, inc_training), the artifact
\* listing, the incident's comments, the task listing with each task's comments,
\* and the attachment listing.
Incident(st, tr, ar, co, ta, at) ==
    [plan_status |-> st, inc_training |-> tr, artifacts |-> ar,
     comments |-> co, tasks |-> ta, attachments |-> at]

\* The incidents the backend is populated with: an incident whose sub-queries
\* all succeed, one whose attachment query raises, a training incident with a
\* task, and one whose artifact query, task comments and attachment sizes fail.
Profiles ==
    << Incident("A", FALSE, Ok(1), Ok(0), OkList(<<>>), OkList(<<200, 300>>)),
       Incident("C", FALSE, Ok(2), Ok(1), OkList(<<>>), RaisesList),
       Incident("A", TRUE, Ok(0), Ok(1), OkList(<<Ok(2)>>), OkList(<<100>>)),
       Incident("P", FALSE, Raises, Ok(2), OkList(<<Ok(1), Raises>>),
                OkList(<<40, NoSize>>)) >>

\* The backends checked: k incidents, 0 <= k <= MaxRecords, taken from
\* Profiles in cyclic order, starting at its first or at its last incident.
Backends ==
    { [i \in 1..k |-> Profiles[((i + r - 1) % Len(Profiles)) + 1]] :
        k \in 0..MaxRecords, r \in {0, Len(Profiles) - 1} }

\* The values --workers takes: argparse type=int accepts zero and negatives.
WorkerCounts == (-1)..MaxWorkers

(* ------------------------------------------------------------ sub-queries *)

RECURSIVE SumLen(_)
\* The note_count += len(comments_task) loop over the tasks' comment listings.
SumLen(s) == IF s = <<>> THEN 0 ELSE Head(s).len + SumLen(Tail(s))

RECURSIVE SumSize(_)
\* sum(attachment["size"] for attachment in attachments)
SumSize(s) == IF s = <<>> THEN 0 ELSE Head(s) + SumSize(Tail(s))

\* count_artifacts: len(artifacts), 0 when the query raises.
count_artifacts(inc) == IF inc.artifacts.ok THEN inc.artifacts.len ELSE 0

\* Mutant of count_notes: the comments of the tasks are not counted.
count_notes_incident_only(inc) ==
    IF inc.comments.ok /\ inc.tasks.ok THEN inc.comments.len ELSE 0

\* Mutant of count_notes: each request has its own try block, so the
\* listings that succeeded are still counted.
count_notes_partial(inc) ==
    (IF inc.comments.ok THEN inc.comments.len ELSE 0)
    + (IF inc.tasks.ok THEN SumLen(inc.tasks.items) ELSE 0)

\* count_notes: incident comments plus every task's comments; any exception
\* in the try block (comments, task listing, one task's comments) returns 0.
count_notes(inc) ==
    IF /\ inc.comments.ok
       /\ inc.tasks.ok
       /\ \A i \in 1..Len(inc.tasks.items) : inc.tasks.items[i].ok
    THEN inc.comments.len + SumLen(inc.tasks.items)
    ELSE 0

\* count_attachments: (len(attachments), total_size); (0, 0) when the query
\* raises or an attachment has no "size" key (KeyError inside the try).
count_attachments(inc) ==
    IF /\ inc.attachments.ok
       /\ \A i \in 1..Len(inc.attachments.items) : inc.attachments.items[i] # NoSize
    THEN <<Len(inc.attachments.items), SumSize(inc.attachments.items)>>
    ELSE <<0, 0>>

(* ------------------------------------------------------------------ state *)

VARIABLES
    backend,        \* the incidents the platform holds, in query order
    workers,        \* args.workers
    mpc,            \* main's position
    start,          \* fetch_all_incidents: start
    incidents,      \* fetch_all_incidents: incidents, then main's incidents
    requests,       \* every page request issued so far: its start and how it was answered
    queue,          \* incidents_queue: incident positions, then None sentinels
    unfinished,     \* incidents_queue.unfinished_tasks
    threads,        \* number of worker threads started so far
    sentinels,      \* number of None sentinels put so far
    results,        \* the shared results dict
    lock,           \* the module-level lock: its holder, or NoThread
    wpc,            \* each worker's position
    incident,       \* each worker's local `incident`
    contribution,   \* each worker's local counts from the three sub-queries
    loaded,         \* each worker's operands read from results for the += lines
    merged,         \* for each incident, how many merges of it have completed
    out_of_order,   \* an incident was merged before one queued ahead of it
    printed,        \* the `current` arguments of print_progress, in call order
    report          \* the results written by print_and_write, or NoReport

vars == <<backend, workers, mpc, start, incidents, requests, queue, unfinished,
          threads, sentinels, results, lock, wpc, incident, contribution,
          loaded, merged, out_of_order, printed, report>>

\* The None sentinel of the queue; incidents are queued by position 1..n.
None == 0

NoThread == 0

Workers == 1..MaxWorkers

\* results as main initialises it.
InitResults ==
    [incident_count |-> 0, artifact_count |-> 0, note_count |-> 0,
     attachment_count |-> 0, total_attachment_size |-> 0,
     status_counts |-> [s \in {} |-> 0], training_incidents |-> 0]

NoContribution == [artifact_count |-> 0, note_count |-> 0,
                   attachment_count |-> 0, total_size |-> 0]

NoReport == [emitted |-> FALSE, results |-> InitResults]

total_incidents == Len(incidents)

Init ==
    /\ backend \in Backends
    /\ workers \in WorkerCounts
    /\ mpc = "fetch"
    /\ start = 0
    /\ incidents = <<>>
    /\ requests = <<>>
    /\ queue = <<>>
    /\ unfinished = 0
    /\ threads = 0
    /\ sentinels = 0
    /\ results = InitResults
    /\ lock = NoThread
    /\ wpc = [w \in Workers |-> "unstarted"]
    /\ incident = [w \in Workers |-> None]
    /\ contribution = [w \in Workers |-> NoContribution]
    /\ loaded = [w \in Workers |-> InitResults]
    /\ merged = [i \in 1..Len(backend) |-> 0]
    /\ out_of_order = FALSE
    /\ printed = <<>>
    /\ report = NoReport

(* ------------------------------------------------------ fetch_all_incidents *)

\* The page a backend that honours start/length returns.
Page(s, length) ==
    SubSeq(backend, s + 1, IF s + length < Len(backend) THEN s + length ELSE Len(backend))

\* Mutant of LastPage: a full page ends the loop as well.
LastPageOrFull(data) == Len(data) <= page_size

\* Line 105: a page shorter than page_size ends the loop.
LastPage(data) == Len(data) < page_size

\* Mutant of AfterFetchError: the exception is logged and the incidents
\* fetched so far are returned.
AfterFetchErrorReturn == "queue"

\* Lines 108-110: an exception of the request is logged and sys.exit ends the
\* process; main's `except Exception` does not catch SystemExit.
AfterFetchError == "aborted"

\* One iteration of the while loop with the page in `data`.
FetchData(data, reply) ==
    /\ requests' = Append(requests, [start |-> start, reply |-> reply])
    /\ incidents' = incidents \o data
    /\ IF LastPage(data)
       THEN /\ mpc' = "queue"
            /\ start' = start
       ELSE /\ mpc' = "fetch"
            /\ start' = start + page_size

\* The request returns the page asked for.
FetchPage ==
    /\ mpc = "fetch"
    /\ FetchData(Page(start, page_size), "page")
    /\ UNCHANGED <<backend, workers, queue, unfinished, threads, sentinels, results,
                   lock, wpc, incident, contribution, loaded, merged, out_of_order, printed, report>>

\* The response carries no "data" key: response.get("data", []) is [].
FetchNoData ==
    /\ mpc = "fetch"
    /\ FetchData(<<>>, "nodata")
    /\ UNCHANGED <<backend, workers, queue, unfinished, threads, sentinels, results,
                   lock, wpc, incident, contribution, loaded, merged, out_of_order, printed, report>>

\* The request raises: logging.error, then sys.exit, which main's
\* `except Exception` does not catch.
FetchRaise ==
    /\ mpc = "fetch"
    /\ requests' = Append(requests, [start |-> start, reply |-> "raise"])
    /\ mpc' = AfterFetchError
    /\ UNCHANGED <<backend, workers, start, incidents, queue, unfinished, threads,
                   sentinels, results, lock, wpc, incident, contribution, loaded,
                   merged, out_of_order, printed, report>>

(* ------------------------------------------------------------------- main *)

\* Lines 208-232: results initialised, every incident put on the queue.
QueueIncidents ==
    /\ mpc = "queue"
    /\ results' = InitResults
    /\ queue' = [i \in 1..Len(incidents) |-> i]
    /\ unfinished' = Len(incidents)
    /\ mpc' = "start"
    /\ UNCHANGED <<backend, workers, start, incidents, requests, threads, sentinels,
                   lock, wpc, incident, contribution, loaded, merged, out_of_order, printed, report>>

\* Mutant of StartsAnother: the loop starts one thread more than range(n).
StartsAnotherInclusive(k, n) == k <= n

\* Line 236, `for _ in range(args.workers)`: with k threads started, the
\* loop starts another one while k < n.
StartsAnother(k, n) == k < n

\* One iteration of `for _ in range(args.workers)`: a thread is started.
StartWorker ==
    /\ mpc = "start"
    /\ StartsAnother(threads, workers)
    /\ threads' = threads + 1
    /\ wpc' = [wpc EXCEPT ![threads + 1] = "get"]
    /\ UNCHANGED <<backend, workers, mpc, start, incidents, requests, queue, unfinished,
                   sentinels, results, lock, incident, contribution, loaded, merged,
                   out_of_order, printed, report>>

\* The loop is over: main reaches incidents_queue.join().
StartDone ==
    /\ mpc = "start"
    /\ ~StartsAnother(threads, workers)
    /\ mpc' = "join"
    /\ UNCHANGED <<backend, workers, start, incidents, requests, queue, unfinished,
                   threads, sentinels, results, lock, wpc, incident, contribution,
                   loaded, merged, out_of_order, printed, report>>

\* Mutant of AllTasksDone: join returns at once.
AllTasksDoneAlways(u) == TRUE

\* Mutant of AllTasksDone: join returns only after some task was put and done,
\* so it blocks on a queue that never held a task.
AllTasksDoneAfterWork(u) == u = 0 /\ incidents # <<>>

\* Queue.join waits until unfinished_tasks, u, is zero.
AllTasksDone(u) == u = 0

\* incidents_queue.join() returns once unfinished_tasks is zero.
QueueJoin ==
    /\ mpc = "join"
    /\ AllTasksDone(unfinished)
    /\ mpc' = "stop"
    /\ UNCHANGED <<backend, workers, start, incidents, requests, queue, unfinished,
                   threads, sentinels, results, lock, wpc, incident, contribution,
                   loaded, merged, out_of_order, printed, report>>

\* One iteration of `for _ in range(args.workers): incidents_queue.put(None)`.
PutSentinel ==
    /\ mpc = "stop"
    /\ sentinels < workers
    /\ sentinels' = sentinels + 1
    /\ queue' = Append(queue, None)
    /\ unfinished' = unfinished + 1
    /\ UNCHANGED <<backend, workers, mpc, start, incidents, requests, threads, results,
                   lock, wpc, incident, contribution, loaded, merged, out_of_order, printed, report>>

\* Mutant of Joined: main does not wait for the thread.
JoinedAlways(p) == TRUE

\* t.join() returns for a thread at position p once the thread has ended; a
\* thread that was never started is not in `threads`.
Joined(p) == p \in {"unstarted", "exited"}

\* `for t in threads: t.join()` returns once every started thread has ended.
JoinThreads ==
    /\ mpc = "stop"
    /\ sentinels >= workers
    /\ \A w \in Workers : Joined(wpc[w])
    /\ mpc' = "report"
    /\ UNCHANGED <<backend, workers, start, incidents, requests, queue, unfinished,
                   threads, sentinels, results, lock, wpc, incident, contribution,
                   loaded, merged, out_of_order, printed, report>>

\* Lines 250-275: the results message is built from results and written.
Report ==
    /\ mpc = "report"
    /\ report' = [emitted |-> TRUE, results |-> results]
    /\ mpc' = "done"
    /\ UNCHANGED <<backend, workers, start, incidents, requests, queue, unfinished,
                   threads, sentinels, results, lock, wpc, incident, contribution,
                   loaded, merged, out_of_order, printed>>

(* ----------------------------------------------------------------- worker *)

\* Mutant of Dequeued: get returns the head of the queue without removing it.
DequeuedPeek(q) == q

\* Queue.get removes the item it returns.
Dequeued(q) == Tail(q)

\* incident = incidents_queue.get(); a None ends the thread.
Get(w) ==
    /\ wpc[w] = "get"
    /\ queue # <<>>
    /\ queue' = Dequeued(queue)
    /\ incident' = [incident EXCEPT ![w] = Head(queue)]
    /\ wpc' = [wpc EXCEPT ![w] = IF Head(queue) = None THEN "exited" ELSE "process"]
    /\ UNCHANGED <<backend, workers, mpc, start, incidents, requests, unfinished, threads,
                   sentinels, results, lock, contribution, loaded, merged, out_of_order, printed, report>>

\* Mutant of Enriched: an incident whose attachment query fails contributes
\* nothing at all.
EnrichedAllOrNothing(inc) ==
    IF count_attachments(inc) = <<0, 0>> /\ ~inc.attachments.ok
    THEN NoContribution
    ELSE [artifact_count |-> count_artifacts(inc),
          note_count |-> count_notes(inc),
          attachment_count |-> count_attachments(inc)[1],
          total_size |-> count_attachments(inc)[2]]

\* process_incident lines 156-158: the counts of the three sub-queries.
Enriched(inc) ==
    [artifact_count |-> count_artifacts(inc),
     note_count |-> count_notes(inc),
     attachment_count |-> count_attachments(inc)[1],
     total_size |-> count_attachments(inc)[2]]

\* process_incident lines 152-158: the three sub-queries of the incident.
Enrich(w) ==
    /\ wpc[w] = "process"
    /\ contribution' = [contribution EXCEPT ![w] = Enriched(incidents[incident[w]])]
    /\ wpc' = [wpc EXCEPT ![w] = "lock_merge"]
    /\ UNCHANGED <<backend, workers, mpc, start, incidents, requests, queue, unfinished,
                   threads, sentinels, results, lock, incident, loaded, merged, out_of_order, printed,
                   report>>

\* Mutant of Released: the lock is still held after the block.
ReleasedNot(l) == l

\* The end of a `with lock:` block releases the lock.
Released(l) == NoThread

\* Mutant of LockFree: the with block is entered although the lock is held.
LockFreeAlways(l) == TRUE

\* threading.Lock.acquire succeeds when no thread holds the lock.
LockFree(l) == l = NoThread

\* process_incident line 160: `with lock:` entered.
MergeAcquire(w) ==
    /\ wpc[w] = "lock_merge"
    /\ LockFree(lock)
    /\ lock' = w
    /\ wpc' = [wpc EXCEPT ![w] = "merge_load"]
    /\ UNCHANGED <<backend, workers, mpc, start, incidents, requests, queue, unfinished,
                   threads, sentinels, results, incident, contribution, loaded, merged,
                   out_of_order, printed, report>>

\* The reads of results[...] that the += statements of lines 161-168 start with.
MergeLoad(w) ==
    /\ wpc[w] = "merge_load"
    /\ loaded' = [loaded EXCEPT ![w] = results]
    /\ wpc' = [wpc EXCEPT ![w] = "merge_totals"]
    /\ UNCHANGED <<backend, workers, mpc, start, incidents, requests, queue, unfinished,
                   threads, sentinels, results, lock, incident, contribution, merged,
                   out_of_order, printed, report>>

\* Mutant of MergeCounters: total_attachment_size is assigned, not added to.
MergeCountersAssignSize(old, c) ==
    [old EXCEPT !.incident_count = @ + 1,
                !.artifact_count = @ + c.artifact_count,
                !.note_count = @ + c.note_count,
                !.attachment_count = @ + c.attachment_count,
                !.total_attachment_size = c.total_size]

\* Lines 161-165: the five counters after the merge of contribution c.
MergeCounters(old, c) ==
    [old EXCEPT !.incident_count = @ + 1,
                !.artifact_count = @ + c.artifact_count,
                !.note_count = @ + c.note_count,
                !.attachment_count = @ + c.attachment_count,
                !.total_attachment_size = @ + c.total_size]

\* Mutant of MergeStatusCounts: the status count is set to 1 instead of
\* status_counts.get(plan_status, 0) + 1.
MergeStatusCountsReset(old, inc) ==
    LET sc == old.status_counts
        ps == inc.plan_status
    IN [old EXCEPT !.status_counts =
                       [s \in DOMAIN sc \cup {ps} |-> IF s = ps THEN 1 ELSE sc[s]],
                   !.training_incidents = IF inc.inc_training THEN @ + 1 ELSE @]

\* Lines 166-168: status_counts[plan_status] = status_counts.get(plan_status, 0) + 1,
\* and training_incidents += 1 for a training incident.
MergeStatusCounts(old, inc) ==
    LET sc == old.status_counts
        ps == inc.plan_status
        n == IF ps \in DOMAIN sc THEN sc[ps] ELSE 0
    IN [old EXCEPT !.status_counts =
                       [s \in DOMAIN sc \cup {ps} |-> IF s = ps THEN n + 1 ELSE sc[s]],
                   !.training_incidents = IF inc.inc_training THEN @ + 1 ELSE @]

\* Lines 161-165: the stores of the five counters.
MergeTotals(w) ==
    /\ wpc[w] = "merge_totals"
    /\ LET new == MergeCounters(loaded[w], contribution[w])
       IN results' = [results EXCEPT
                !.incident_count = new.incident_count,
                !.artifact_count = new.artifact_count,
                !.note_count = new.note_count,
                !.attachment_count = new.attachment_count,
                !.total_attachment_size = new.total_attachment_size]
    /\ wpc' = [wpc EXCEPT ![w] = "merge_status"]
    /\ UNCHANGED <<backend, workers, mpc, start, incidents, requests, queue, unfinished,
                   threads, sentinels, lock, incident, contribution, loaded, merged,
                   out_of_order, printed, report>>

\* Lines 166-168 and the end of the with block: the lock is released and
\* process_incident returns, which ends the life of its locals.
MergeStatus(w) ==
    /\ wpc[w] = "merge_status"
    /\ LET new == MergeStatusCounts(loaded[w], incidents[incident[w]])
       IN results' = [results EXCEPT
                !.status_counts = new.status_counts,
                !.training_incidents = new.training_incidents]
    /\ lock' = Released(lock)
    /\ loaded' = [loaded EXCEPT ![w] = InitResults]
    /\ merged' = [merged EXCEPT ![incident[w]] = @ + 1]
    /\ out_of_order' = (out_of_order \/ \E j \in 1..(incident[w] - 1) : merged[j] = 0)
    /\ contribution' = [contribution EXCEPT ![w] = NoContribution]
    /\ wpc' = [wpc EXCEPT ![w] = "task_done"]
    /\ UNCHANGED <<backend, workers, mpc, start, incidents, requests, queue, unfinished,
                   threads, sentinels, incident, printed, report>>

\* Mutant of task_done: unfinished_tasks is left as it is.
task_done_missing(u) == u

\* Queue.task_done: unfinished_tasks is decremented.
task_done(u) == u - 1

\* worker line 177: incidents_queue.task_done().
TaskDone(w) ==
    /\ wpc[w] = "task_done"
    /\ unfinished' = task_done(unfinished)
    /\ wpc' = [wpc EXCEPT ![w] = "lock_progress"]
    /\ UNCHANGED <<backend, workers, mpc, start, incidents, requests, queue, threads,
                   sentinels, results, lock, incident, contribution, loaded, merged,
                   out_of_order, printed, report>>

\* worker line 178: `with lock:` entered.
ProgressAcquire(w) ==
    /\ wpc[w] = "lock_progress"
    /\ LockFree(lock)
    /\ lock' = w
    /\ wpc' = [wpc EXCEPT ![w] = "print"]
    /\ UNCHANGED <<backend, workers, mpc, start, incidents, requests, queue, unfinished,
                   threads, sentinels, results, incident, contribution, loaded, merged,
                   out_of_order, printed, report>>

\* The `current` argument of worker line 179.
Current(total, q) == total - Len(q)

\* worker line 179: print_progress(total_incidents - qsize(), total_incidents),
\* then the lock is released and the loop starts over: `incident` is not read
\* again before the next get assigns it.
PrintProgress(w) ==
    /\ wpc[w] = "print"
    /\ printed' = Append(printed, Current(total_incidents, queue))
    /\ lock' = Released(lock)
    /\ incident' = [incident EXCEPT ![w] = None]
    /\ wpc' = [wpc EXCEPT ![w] = "get"]
    /\ UNCHANGED <<backend, workers, mpc, start, incidents, requests, queue, unfinished,
                   threads, sentinels, results, contribution, loaded, merged,
                   out_of_order, report>>

(* ---------------------------------------------------------- specification *)

Main ==
    \/ FetchPage
    \/ FetchNoData
    \/ FetchRaise
    \/ QueueIncidents
    \/ StartWorker
    \/ StartDone
    \/ QueueJoin
    \/ PutSentinel
    \/ JoinThreads
    \/ Report

Worker(w) ==
    \/ Get(w)
    \/ Enrich(w)
    \/ MergeAcquire(w)
    \/ MergeLoad(w)
    \/ MergeTotals(w)
    \/ MergeStatus(w)
    \/ TaskDone(w)
    \/ ProgressAcquire(w)
    \/ PrintProgress(w)

Next == Main \/ \E w \in Workers : Worker(w)

Spec == Init /\ [][Next]_vars

\* Fair scheduling: while some thread (main or a worker) can take a step, a
\* step is eventually taken; a blocked get, join or lock acquisition is no
\* step. Fairness towards every single thread implies this.
FairSpec == Spec /\ WF_vars(Next)

(* ------------------------------------ every outcome of the sub-queries *)

\* The sequences over S of length at most n.
SeqsUpTo(S, n) == UNION { [1..k -> S] : k \in 0..n }

\* What GET /incidents/{id}/comments and GET /tasks/{id}/comments can do.
CommentOutcomes == {Ok(0), Ok(1), Ok(2), Raises}

\* What GET /incidents/{id}/tasks can do: raise, or list up to MaxItems
\* tasks, each with the outcome of its own comments query.
TaskOutcomes ==
    {RaisesList} \cup { OkList(t) : t \in SeqsUpTo({Ok(1), Ok(2), Raises}, MaxItems) }

\* What GET /incidents/{id}/attachments can do: raise, or list up to
\* MaxItems attachments, each with a size or without the "size" key.
AttachmentOutcomes ==
    {RaisesList} \cup { OkList(a) : a \in SeqsUpTo({100, NoSize}, MaxItems) }

\* The incidents with every combination of sub-query outcomes.
Records ==
    { Incident("A", FALSE, ar, co, ta, at) :
        ar \in {Ok(1), Raises}, co \in CommentOutcomes,
        ta \in TaskOutcomes, at \in AttachmentOutcomes }

\* The run on a backend of one incident of Records, with one worker thread.
SubQueryInit ==
    /\ backend \in { <<inc>> : inc \in Records }
    /\ workers = 1
    /\ mpc = "fetch"
    /\ start = 0
    /\ incidents = <<>>
    /\ requests = <<>>
    /\ queue = <<>>
    /\ unfinished = 0
    /\ threads = 0
    /\ sentinels = 0
    /\ results = InitResults
    /\ lock = NoThread
    /\ wpc = [w \in Workers |-> "unstarted"]
    /\ incident = [w \in Workers |-> None]
    /\ contribution = [w \in Workers |-> NoContribution]
    /\ loaded = [w \in Workers |-> InitResults]
    /\ merged = [i \in 1..Len(backend) |-> 0]
    /\ out_of_order = FALSE
    /\ printed = <<>>
    /\ report = NoReport

SubQuerySpec == SubQueryInit /\ [][Next]_vars

(* --------------------------------------- the single-threaded variant (p3) *)

RECURSIVE p3_loop(_, _, _)
\* QuickResilientSOARstatistics-p3.py lines 182-192: the loop over the
\* incidents in list order, from position i with the counts so far in acc.
p3_loop(incs, i, acc) ==
    IF i > Len(incs)
    THEN acc
    ELSE p3_loop(incs, i + 1,
            [incident_count |-> acc.incident_count + 1,
             artifact_count |-> acc.artifact_count + count_artifacts(incs[i]),
             note_count |-> acc.note_count + count_notes(incs[i]),
             attachment_count |-> acc.attachment_count + count_attachments(incs[i])[1],
             total_attachment_size |->
                 acc.total_attachment_size + count_attachments(incs[i])[2]])

\* QuickResilientSOARstatistics-p3.py lines 163-192: the five counts start at
\* zero and the loop runs over the whole list.
p3_main(incs) ==
    p3_loop(incs, 1,
            [incident_count |-> 0, artifact_count |-> 0, note_count |-> 0,
             attachment_count |-> 0, total_attachment_size |-> 0])

(* ----------------------------------------------------------------- claims *)

\* The five totals of a results dict.
Totals(r) ==
    [incident_count |-> r.incident_count, artifact_count |-> r.artifact_count,
     note_count |-> r.note_count, attachment_count |-> r.attachment_count,
     total_attachment_size |-> r.total_attachment_size]

RECURSIVE MergedInOrder(_, _)
\* results after the first k incidents of the order p (a permutation of the
\* positions of incidents) have been merged one after the other.
MergedInOrder(p, k) ==
    IF k = 0
    THEN InitResults
    ELSE MergeStatusCounts(
             MergeCounters(MergedInOrder(p, k - 1), Enriched(incidents[p[k]])),
             incidents[p[k]])

\* The workers main started.
Started == 1..threads

\* C1: whatever the worker count and the interleaving, the results reported
\* (the five totals, the status histogram, the training count) are those of
\* merging the fetched incidents one by one in any order whatever: every
\* permutation of the list gives the reported results.
C1_OrderIndependent ==
    report.emitted =>
        \A p \in Permutations(1..Len(incidents)) :
            MergedInOrder(p, Len(incidents)) = report.results

\* C1 witness: a report after two workers merged three incidents, one of them
\* ahead of an incident queued before it.
C1_Witness ==
    /\ report.emitted
    /\ workers >= 2
    /\ Len(incidents) >= 3
    /\ out_of_order

\* C2: the five totals the threaded run reports are those the sequential loop
\* of the single-threaded variant computes on the same incident list.
C2_SameAsSequential ==
    report.emitted => Totals(report.results) = p3_main(incidents)

\* C2 witness: a report of a run with MaxWorkers workers that merged out of
\* list order, on a list with an incident whose attachment query raises.
C2_Witness ==
    /\ report.emitted
    /\ Len(incidents) >= 2
    /\ \E i \in 1..Len(incidents) : ~incidents[i].attachments.ok
    /\ workers = MaxWorkers
    /\ out_of_order

\* The worker positions at which the worker holds a dequeued incident whose
\* merge has not completed.
Holding == {"process", "lock_merge", "merge_load", "merge_totals", "merge_status"}

\* Number of queue entries that are incident i.
InQueue(i) == Cardinality({k \in 1..Len(queue) : queue[k] = i})

\* Number of workers holding incident i.
HeldBy(i) == Cardinality({w \in Workers : wpc[w] \in Holding /\ incident[w] = i})

\* C3: once the incidents are queued, every fetched incident is in exactly one
\* place: in the queue once, held by one worker, or merged once; and the
\* report counts every fetched incident.
C3_ExactlyOnce ==
    /\ mpc \notin {"fetch", "queue", "aborted"} =>
           \A i \in 1..Len(incidents) : InQueue(i) + HeldBy(i) + merged[i] = 1
    /\ report.emitted => report.results.incident_count = Len(incidents)

\* C3 witness: one incident still queued, one held by a worker, one merged.
C3_Witness ==
    /\ Len(incidents) = 3
    /\ \E i, j, k \in 1..3 :
           /\ InQueue(i) = 1
           /\ HeldBy(j) = 1
           /\ merged[k] = 1

\* C4: once main is about to start N >= 1 workers, under fair scheduling the
\* run completes: main gets past incidents_queue.join(), every started worker
\* exits and the results are emitted, whatever sub-queries fail.
C4_RunCompletes ==
    (mpc = "start" /\ workers >= 1) ~>
        (report.emitted /\ threads = workers /\ \A w \in Started : wpc[w] = "exited")

\* C4 witness: the report is emitted with every worker exited, after an
\* incident whose artifact, note and attachment queries all fail was merged.
C4_Witness ==
    /\ report.emitted
    /\ workers >= 1
    /\ threads = workers
    /\ \A w \in Started : wpc[w] = "exited"
    /\ \E i \in 1..Len(incidents) :
           /\ merged[i] = 1
           /\ ~incidents[i].artifacts.ok
           /\ count_notes(incidents[i]) = 0
           /\ count_attachments(incidents[i]) = <<0, 0>>

RECURSIVE SumValues(_)
\* sum(f.values()) of a dict f.
SumValues(f) ==
    IF DOMAIN f = {}
    THEN 0
    ELSE LET k == CHOOSE k \in DOMAIN f : TRUE
         IN f[k] + SumValues([x \in DOMAIN f \ {k} |-> f[x]])

\* C5: whenever no worker holds the lock, and in the report, incident_count
\* is the sum of the values of status_counts.
C5_Conservation ==
    /\ lock = NoThread => results.incident_count = SumValues(results.status_counts)
    /\ report.emitted =>
           report.results.incident_count = SumValues(report.results.status_counts)

\* C5 witness: the lock is free with three incidents merged under two
\* statuses, one of them counted twice.
C5_Witness ==
    /\ lock = NoThread
    /\ results.incident_count = 3
    /\ Cardinality(DOMAIN results.status_counts) = 2
    /\ \E st \in DOMAIN results.status_counts : results.status_counts[st] = 2

RECURSIVE MergedSum(_)
\* The sum, field by field, of the sub-query counts of the incidents among the
\* first k whose merge has completed (each as often as it was merged).
MergedSum(k) ==
    IF k = 0
    THEN NoContribution
    ELSE LET c == Enriched(incidents[k])
             rest == MergedSum(k - 1)
         IN [artifact_count |-> rest.artifact_count + merged[k] * c.artifact_count,
             note_count |-> rest.note_count + merged[k] * c.note_count,
             attachment_count |-> rest.attachment_count + merged[k] * c.attachment_count,
             total_size |-> rest.total_size + merged[k] * c.total_size]

\* C6: whenever no worker holds the lock, each of the four running totals is
\* the sum of that field over exactly the incidents merged so far.
C6_TotalsAreSums ==
    lock = NoThread =>
        [artifact_count |-> results.artifact_count,
         note_count |-> results.note_count,
         attachment_count |-> results.attachment_count,
         total_size |-> results.total_attachment_size] = MergedSum(Len(incidents))

\* C6 witness: the lock is free, one incident with attachments is merged, and
\* two workers each hold an incident that is not merged yet.
C6_Witness ==
    /\ lock = NoThread
    /\ results.total_attachment_size > 0
    /\ \E i, j, k \in 1..Len(incidents) :
           /\ j # k
           /\ merged[i] = 1
           /\ merged[j] = 0 /\ HeldBy(j) = 1
           /\ merged[k] = 0 /\ HeldBy(k) = 1

\* Number of merges completed so far.
RECURSIVE MergeCount(_)
MergeCount(k) == IF k = 0 THEN 0 ELSE merged[k] + MergeCount(k - 1)

\* C7: the merge of an incident whose attachment query raised adds its
\* artifact count and its note count to the totals, adds nothing to the
\* attachment count and size, counts the incident in incident_count and in the
\* status histogram; and its worker goes on: every completed merge is followed
\* by task_done and one print_progress call of the same worker.
C7_Isolation ==
    /\ [][\A w \in Workers :
            (/\ wpc[w] = "merge_status"
             /\ wpc'[w] = "task_done"
             /\ ~incidents[incident[w]].attachments.ok) =>
                LET inc == incidents[incident[w]]
                    before == loaded[w]
                    ps == inc.plan_status
                IN /\ results'.incident_count = before.incident_count + 1
                   /\ results'.artifact_count =
                          before.artifact_count + count_artifacts(inc)
                   /\ results'.note_count = before.note_count + count_notes(inc)
                   /\ results'.attachment_count = before.attachment_count
                   /\ results'.total_attachment_size = before.total_attachment_size
                   /\ ps \in DOMAIN results'.status_counts
                   /\ results'.status_counts[ps] =
                          (IF ps \in DOMAIN before.status_counts
                           THEN before.status_counts[ps] ELSE 0) + 1]_vars
    /\ [](MergeCount(Len(incidents)) =
            Len(printed)
            + Cardinality({w \in Workers :
                              wpc[w] \in {"task_done", "lock_progress", "print"}}))

\* C7 witness: the report is emitted after an incident with artifacts and
\* notes whose attachment query raised was merged along with another incident,
\* and progress was printed once per incident.
C7_Witness ==
    /\ report.emitted
    /\ Len(incidents) >= 2
    /\ Len(printed) = Len(incidents)
    /\ \E i \in 1..Len(incidents) :
           /\ ~incidents[i].attachments.ok
           /\ merged[i] = 1
           /\ count_artifacts(incidents[i]) > 0
           /\ count_notes(incidents[i]) > 0
           /\ report.results.artifact_count >= count_artifacts(incidents[i])

\* A page request raised.
Raised == \E i \in 1..Len(requests) : requests[i].reply = "raise"

\* Every page request so far was answered with the page asked for.
Honoured == \A i \in 1..Len(requests) : requests[i].reply = "page"

\* C8: once a page request has raised, the run is aborted and stays so: no
\* incident is queued, no worker thread is started, nothing is merged into
\* results, no progress is printed and no report is produced.
C8_FatalShortCircuit ==
    Raised =>
        /\ mpc = "aborted"
        /\ queue = <<>>
        /\ threads = 0
        /\ \A w \in Workers : wpc[w] = "unstarted"
        /\ results = InitResults
        /\ \A i \in DOMAIN merged : merged[i] = 0
        /\ printed = <<>>
        /\ ~report.emitted

\* C8 witness: the request for page 2 raised after a full first page.
C8_Witness ==
    /\ Len(requests) = 2
    /\ requests[1].reply = "page"
    /\ requests[2].reply = "raise"
    /\ Len(incidents) = page_size
    /\ workers >= 1

\* C9: the requests are issued at offsets 0, page_size, 2 * page_size, ...;
\* against a backend of n incidents that answers every request with the page
\* asked for, the loop ends after exactly floor(n / page_size) + 1 requests.
C9_Pagination ==
    /\ \A i \in 1..Len(requests) : requests[i].start = (i - 1) * page_size
    /\ (mpc # "fetch" /\ Honoured) =>
           Len(requests) = (Len(backend) \div page_size) + 1

\* C9 witness: a backend of exactly page_size incidents was fetched with two
\* requests, the second one answered with an empty page.
C9_Witness ==
    /\ mpc = "queue"
    /\ Honoured
    /\ Len(backend) = page_size
    /\ Len(requests) = 2
    /\ incidents = backend

\* C10 (as claimed): the `current` values passed to print_progress, in the
\* order of the calls, never decrease.
C10_ProgressMonotone ==
    \A i \in 1..(Len(printed) - 1) : printed[i] <= printed[i + 1]

\* C11 (as claimed): for a non-empty backlog and N >= 1 workers, the last
\* `current` value printed before the results are emitted is total_incidents.
C11_FinalProgressIsTotal ==
    (report.emitted /\ workers >= 1 /\ Len(incidents) > 0) =>
        /\ printed # <<>>
        /\ printed[Len(printed)] = total_incidents

\* The three incidents of the concrete scenario: statuses A, C, A; artifacts
\* 1, 2, 0; notes 0, 1, 3; attachments (2, 500), query raises, (1, 100).
Scenario == <<Profiles[1], Profiles[2], Profiles[3]>>

\* C12: every run over the scenario's three incidents, with any N >= 1 and
\* any interleaving, reports incident_count 3, artifact_count 3, note_count 4,
\* attachment_count 3, total_attachment_size 600 and status_counts A: 2, C: 1.
C12_Scenario ==
    (report.emitted /\ incidents = Scenario) =>
        /\ Totals(report.results) =
               [incident_count |-> 3, artifact_count |-> 3, note_count |-> 4,
                attachment_count |-> 3, total_attachment_size |-> 600]
        /\ report.results.status_counts =
               [st \in {"A", "C"} |-> IF st = "A" THEN 2 ELSE 1]

\* C12 witness: the scenario reported by a run of MaxWorkers workers that
\* merged out of list order.
C12_Witness ==
    /\ report.emitted
    /\ incidents = Scenario
    /\ workers = MaxWorkers
    /\ out_of_order
    /\ report.results.total_attachment_size = 600

\* C13 (as claimed): every `current` value a worker passes to print_progress
\* is at most the number of incidents whose merge has completed at the moment
\* of the call.
C13_ProgressCountsCompleted ==
    [][Len(printed') > Len(printed) =>
           printed'[Len(printed')] <= MergeCount(Len(incidents))]_vars

\* C14 (as claimed): every `current` value passed to print_progress lies in
\* 0..total_incidents.
C14_ProgressInRange ==
    \A i \in 1..Len(printed) : 0 <= printed[i] /\ printed[i] <= total_incidents

\* C15 (as claimed): for every value of --workers and every backlog, the run
\* never comes to a halt before the report: as long as main has neither
\* finished nor aborted in the fetch, some thread can take a step.
C15_PoolReturns ==
    mpc \notin {"done", "aborted"} => ENABLED Next

\* C16 (as claimed): fetch_all_incidents returns every incident of the
\* backend, each once and in order, or the run is aborted.
C16_NeverPartial ==
    mpc \notin {"fetch", "aborted"} => incidents = backend

\* The worker positions inside the with block of process_incident.
InMerge == {"merge_load", "merge_totals", "merge_status"}

\* The worker position at which the three network sub-queries are under way.
NetworkIO == {"process"}

\* The worker position inside print_progress, which writes to sys.stdout and
\* flushes it.
ConsoleIO == {"print"}

\* C17 (as claimed): no worker holds the lock while it performs a network
\* sub-query or any other I/O.
C17_NoLockAcrossIO ==
    \A w \in Workers : wpc[w] \in NetworkIO \cup ConsoleIO => lock # w

\* C17 (amended): no worker holds the lock while it performs a network
\* sub-query; the lock is held only inside the merge of process_incident and
\* inside the print_progress call, console write included.
C17_NoLockAcrossNetworkIO ==
    \A w \in Workers :
        /\ wpc[w] \in NetworkIO => lock # w
        /\ lock = w => wpc[w] \in InMerge \cup ConsoleIO

\* C17 witness: one worker merges under the lock while another one runs its
\* sub-queries.
C17_Witness ==
    \E w, v \in Workers :
        /\ lock = w
        /\ wpc[w] \in InMerge
        /\ wpc[v] \in NetworkIO

\* C18 (as claimed): a worker ready to merge is not blocked by a worker that
\* is printing progress, nor a worker ready to print by one that is merging.
C18_SeparateLocks ==
    \A w, v \in Workers :
        /\ (wpc[w] = "lock_merge" /\ wpc[v] \in ConsoleIO) => ENABLED MergeAcquire(w)
        /\ (wpc[w] = "lock_progress" /\ wpc[v] \in InMerge) => ENABLED ProgressAcquire(w)

\* C18 (amended): the totals and the progress output are guarded by the one
\* module-level lock: at most one worker is inside a merge or a print_progress
\* call, and a worker ready to merge or to print is blocked exactly while
\* another worker is inside either of them.
C18_OneLock ==
    /\ Cardinality({w \in Workers : wpc[w] \in InMerge \cup ConsoleIO}) <= 1
    /\ \A w \in Workers :
           /\ wpc[w] = "lock_merge" =>
                  (ENABLED MergeAcquire(w) <=>
                       \A v \in Workers : wpc[v] \notin InMerge \cup ConsoleIO)
           /\ wpc[w] = "lock_progress" =>
                  (ENABLED ProgressAcquire(w) <=>
                       \A v \in Workers : wpc[v] \notin InMerge \cup ConsoleIO)

\* C18 witness: a worker ready to merge while another worker prints progress.
C18_Witness ==
    \E w, v \in Workers : wpc[w] = "lock_merge" /\ wpc[v] \in ConsoleIO

\* The number of threads range(n) makes the loop start.
RangeLen(n) == IF n > 0 THEN n ELSE 0

\* The incidents dequeued and not merged yet.
InFlight == {i \in 1..Len(incidents) : InQueue(i) = 0 /\ merged[i] = 0}

\* C19: exactly N threads are started (none for N <= 0), all of them in main's
\* start loop and none afterwards, and at every state at most N incidents are
\* dequeued and not merged yet.
C19_BoundedConcurrency ==
    /\ [](/\ threads <= RangeLen(workers)
          /\ Cardinality({w \in Workers : wpc[w] # "unstarted"}) = threads
          /\ mpc \notin {"fetch", "queue", "start", "aborted"} =>
                 threads = RangeLen(workers)
          /\ mpc \notin {"fetch", "queue", "aborted"} =>
                 Cardinality(InFlight) <= RangeLen(workers))
    /\ [][mpc # "start" => threads' = threads]_vars

\* C19 witness: MaxWorkers incidents are in flight and another one waits in
\* the queue.
C19_Witness ==
    /\ workers = MaxWorkers
    /\ threads = workers
    /\ Cardinality(InFlight) = workers
    /\ \E i \in 1..Len(incidents) : InQueue(i) = 1

\* C20: when main builds the report every incident is merged, every started
\* worker has ended and the lock is free; from then on results and the
\* progress output do not change, and the report, once emitted, is the final
\* results and is not rebuilt.
C20_ReportAfterDrain ==
    /\ [](mpc \in {"report", "done"} =>
            /\ \A i \in 1..Len(incidents) : merged[i] = 1
            /\ \A w \in Workers : wpc[w] \in {"unstarted", "exited"}
            /\ Cardinality({w \in Workers : wpc[w] = "exited"}) = RangeLen(workers)
            /\ lock = NoThread)
    /\ [](report.emitted => report.results = results)
    /\ [][(mpc \in {"report", "done"}) =>
            (results' = results /\ printed' = printed)]_vars
    /\ [][report.emitted => report' = report]_vars

\* C20 witness: the report of a run in which MaxWorkers workers merged
\* several incidents and printed progress for each.
C20_Witness ==
    /\ report.emitted
    /\ workers = MaxWorkers
    /\ Len(incidents) >= 2
    /\ Len(printed) = Len(incidents)
    /\ report.results.incident_count = Len(incidents)

\* The positions at which a worker holds the counts of its three sub-queries.
Counted == {"lock_merge", "merge_load", "merge_totals", "merge_status"}

\* Every request of the note derivation of inc succeeded.
NotesAnswered(inc) ==
    /\ inc.comments.ok
    /\ inc.tasks.ok
    /\ \A i \in 1..Len(inc.tasks.items) : inc.tasks.items[i].ok

\* The attachment listing of inc was returned and every entry has a size.
AttachmentsAnswered(inc) ==
    /\ inc.attachments.ok
    /\ \A i \in 1..Len(inc.attachments.items) : inc.attachments.items[i] # NoSize

\* C21: the counts a worker holds after the three sub-queries of an incident
\* are, each on its own: the artifact count, or 0 if the artifact query
\* raised; the incident's comments plus the comments of every task if every
\* one of those requests succeeded, and 0 (never a partial sum) if the
\* incident comments, the task listing or one task's comments raised; the
\* attachment count and bytes, or 0 and 0 if the attachment query failed. Each
\* value depends on the outcomes of its own requests only, and the report of
\* a one-incident run shows exactly these values.
C21_DegradesWhole ==
    /\ \A w \in Workers :
           wpc[w] \in Counted =>
               LET inc == incidents[incident[w]]
                   c == contribution[w]
               IN /\ c.artifact_count =
                         (IF inc.artifacts.ok THEN inc.artifacts.len ELSE 0)
                  /\ c.note_count =
                         (IF NotesAnswered(inc)
                          THEN inc.comments.len + SumLen(inc.tasks.items)
                          ELSE 0)
                  /\ ~inc.attachments.ok =>
                         (c.attachment_count = 0 /\ c.total_size = 0)
                  /\ AttachmentsAnswered(inc) =>
                         /\ c.attachment_count = Len(inc.attachments.items)
                         /\ c.total_size = SumSize(inc.attachments.items)
                  /\ (inc.attachments.ok /\ ~AttachmentsAnswered(inc)) =>
                         (c.attachment_count = 0 /\ c.total_size = 0)
    /\ (report.emitted /\ Len(incidents) = 1) =>
           LET inc == incidents[1]
               r == report.results
           IN /\ r.artifact_count =
                     (IF inc.artifacts.ok THEN inc.artifacts.len ELSE 0)
              /\ r.note_count =
                     (IF NotesAnswered(inc)
                      THEN inc.comments.len + SumLen(inc.tasks.items)
                      ELSE 0)
              /\ ~inc.attachments.ok =>
                     (r.attachment_count = 0 /\ r.total_attachment_size = 0)

\* C21 witness: a worker holds the counts of an incident whose comments and
\* first task were counted before its second task's comments raised: the note
\* count is 0 while the artifacts and the attachments are counted in full.
C21_Witness ==
    \E w \in Workers :
        /\ wpc[w] \in Counted
        /\ LET inc == incidents[incident[w]]
           IN /\ inc.comments.ok /\ inc.comments.len > 0
              /\ inc.tasks.ok /\ Len(inc.tasks.items) = 2
              /\ inc.tasks.items[1].ok /\ inc.tasks.items[1].len > 0
              /\ ~inc.tasks.items[2].ok
              /\ inc.artifacts.ok
              /\ AttachmentsAnswered(inc) /\ Len(inc.attachments.items) > 0
        /\ contribution[w].note_count = 0
        /\ contribution[w].artifact_count > 0
        /\ contribution[w].attachment_count > 0
        /\ contribution[w].total_size > 0

\* task_done has been called for the incident at position i.
MarkedDone(i) ==
    /\ merged[i] = 1
    /\ \A w \in Workers : ~(wpc[w] = "task_done" /\ incident[w] = i)

\* The None sentinels waiting in the queue.
SentinelsQueued == Cardinality({k \in 1..Len(queue) : queue[k] = None})

\* The worker threads that have ended.
Exited == {w \in Workers : wpc[w] = "exited"}

\* C22: a sentinel is in play only after task_done was called for every
\* queued incident; once a worker has exited the queue holds no incident; a
\* worker ends only by dequeuing a None, which it removes, so the sentinels
\* put are those still queued plus one per ended worker; and when main has
\* joined the threads every started worker has consumed its one sentinel and
\* the queue is empty.
C22_SentinelProtocol ==
    /\ [](sentinels > 0 => \A i \in 1..Len(incidents) : MarkedDone(i))
    /\ [](Exited # {} => \A k \in 1..Len(queue) : queue[k] = None)
    /\ [][\A w \in Workers :
            (wpc[w] # "exited" /\ wpc'[w] = "exited") =>
                /\ wpc[w] = "get"
                /\ queue # <<>>
                /\ Head(queue) = None
                /\ queue' = Tail(queue)]_vars
    /\ [](Cardinality(Exited) + SentinelsQueued = sentinels)
    /\ [](mpc \in {"report", "done"} =>
            /\ queue = <<>>
            /\ sentinels = threads
            /\ Cardinality(Exited) = threads)

\* C22 witness: with MaxWorkers workers and at least two incidents, one worker
\* has ended on its sentinel while the sentinel of another is still queued.
C22_Witness ==
    /\ workers = MaxWorkers
    /\ Len(incidents) >= 2
    /\ sentinels = workers
    /\ Cardinality(Exited) = 1
    /\ SentinelsQueued = workers - 1
    /\ \E w \in Workers : wpc[w] \in {"lock_progress", "print", "get"}

\* C23: when the fetch returned no incident and --workers is at least 1, no
\* worker ever gets past incidents_queue.get() (so print_progress, and its
\* division by total, is never evaluated) and the lock is never taken; the
\* run is never stuck before its end; when main is past the joins every one
\* of the N workers has exited; and the report shows every total 0 and an
\* empty status histogram.
C23_EmptyRecordSet ==
    (mpc \notin {"fetch", "aborted"} /\ incidents = <<>> /\ workers >= 1) =>
        /\ printed = <<>>
        /\ \A w \in Workers : wpc[w] \in {"unstarted", "get", "exited"}
        /\ lock = NoThread
        /\ mpc # "done" => ENABLED Next
        /\ mpc \in {"report", "done"} => \A w \in 1..workers : wpc[w] = "exited"
        /\ mpc = "done" =>
               /\ report.emitted
               /\ report.results.incident_count = 0
               /\ report.results.artifact_count = 0
               /\ report.results.note_count = 0
               /\ report.results.attachment_count = 0
               /\ report.results.total_attachment_size = 0
               /\ report.results.training_incidents = 0
               /\ DOMAIN report.results.status_counts = {}

\* C23 witness: the platform holds no incident, MaxWorkers workers were
\* started and have all exited, nothing was printed and the report is out.
C23_Witness ==
    /\ backend = <<>>
    /\ incidents = <<>>
    /\ workers = MaxWorkers
    /\ threads = MaxWorkers
    /\ \A w \in Workers : wpc[w] = "exited"
    /\ printed = <<>>
    /\ report.emitted
    /\ report.results.incident_count = 0

====
